---------------------------- MODULE Spec2Model ----------------------------
(***************************************************************************)
(* The Categorised distribution of scVAE                                   *)
(* (src/scvae/distributions/categorised.py).                               *)
(*                                                                         *)
(* A composite is built from a Categorical over N classes and a base       *)
(* distribution.  Values 0..N-2 are scored by the categorical alone, and   *)
(* values >= N-1 by the last class times the base shifted by N-1.          *)
(*                                                                         *)
(* Numbers are exact rationals [n, d].  A logit is kept as the integer w   *)
(* with logit = ln(w), so softmax gives w[k] / sum(w).  A log-domain value *)
(* is kept as the rational whose logarithm it is (0 for -inf), so adding   *)
(* two of them multiplies the rationals and exp gives the rational back.   *)
(* Python object references are addresses into a heap of lists.            *)
(***************************************************************************)
EXTENDS Integers, Sequences, FiniteSets

\* ------------------------------------------------------------ bounds
MaxN == 3
MaxW == 2
MaxD == 2
MaxObjs == 2
XDen == 2

\* ------------------------------------------------------------ numbers
Abs(a) == IF a < 0 THEN -a ELSE a

RECURSIVE GCD(_, _)
GCD(a, b) == IF b = 0 THEN a ELSE GCD(b, a % b)

\* The rational n/d in lowest terms, d > 0.
Rat(n, d) ==
    LET g == GCD(Abs(n), Abs(d))
        s == IF d < 0 THEN -1 ELSE 1
    IN  [kind |-> "rat", n |-> (s * n) \div g, d |-> (s * d) \div g]

Int2Rat(k) == Rat(k, 1)
NaN == [kind |-> "nan", n |-> 0, d |-> 1]
NoVal == [kind |-> "none", n |-> 0, d |-> 1]

RAdd(a, b) == Rat(a.n * b.d + b.n * a.d, a.d * b.d)
RSub(a, b) == Rat(a.n * b.d - b.n * a.d, a.d * b.d)
RMul(a, b) == Rat(a.n * b.n, a.d * b.d)
RLt(a, b) == a.n * b.d < b.n * a.d
RSquare(a) == RMul(a, a)

\* The log-domain value ln(r); ln(0) is -inf.
Log(r) == [kind |-> "log", n |-> r.n, d |-> r.d]
\* a + b in the log domain; NaN propagates.
LogAdd(a, b) ==
    IF a.kind = "nan" \/ b.kind = "nan" THEN NaN
    ELSE Log(RMul(Rat(a.n, a.d), Rat(b.n, b.d)))
\* math_ops.exp of a log-domain value.
Exp(v) == IF v.kind = "nan" THEN NaN ELSE Rat(v.n, v.d)

RECURSIVE SumInts(_)
SumInts(s) == IF s = <<>> THEN 0 ELSE Head(s) + SumInts(Tail(s))

RECURSIVE SumRats(_)
SumRats(s) == IF s = <<>> THEN Int2Rat(0) ELSE RAdd(Head(s), SumRats(Tail(s)))

\* ------------------------------------------------------------ state
VARIABLES cat, dist, heap, objs, last
vars == <<cat, dist, heap, objs, last>>

\* Addresses of the two components' own _graph_parents lists.
CatGP == "cat._graph_parents"
DistGP == "dist._graph_parents"

\* Runtime batch shapes the components can have.
Shapes == {<<3>>, <<4>>, <<3, 1>>}

\* Python values passed to the constructor: the two component objects and
\* values that are neither.
PyCat == [type |-> "Categorical", val |-> 1]
PyDist == [type |-> "Distribution", val |-> 1]
PyNone == [type |-> "NoneType", val |-> 0]
PyInt(k) == [type |-> "int", val |-> k]
PyList(len) == [type |-> "list", val |-> len]
NoArg == [type |-> "none", val |-> 0]

CatArgs == {PyCat, PyDist, PyNone}
DistArgs == {PyDist, PyNone, PyInt(0), PyInt(1), PyList(0), PyList(1)}

\* bool(v): None, 0 and the empty list are falsy, objects are truthy.
Truthy(v) ==
    CASE v.type = "NoneType" -> FALSE
      [] v.type = "int" -> v.val # 0
      [] v.type = "list" -> v.val # 0
      [] OTHER -> TRUE

\* isinstance(v, cls); Categorical is a subclass of Distribution.
IsInstance(v, cls) ==
    CASE cls = "Categorical" -> v.type = "Categorical"
      [] cls = "Distribution" -> v.type \in {"Categorical", "Distribution"}
      [] OTHER -> FALSE

\* Observed values x: multiples of 1/XDen from -1 up to one beyond the
\* largest value with mass.
XArgs == {Rat(h, XDen) : h \in (-XDen)..((MaxN + MaxD) * XDen)}

\* Logit vectors of n classes (logit k = ln(w[k]), w[k] in 1..MaxW).
LogitVectors == UNION {[1..n -> 1..MaxW] : n \in 1..MaxN}
\* Base distributions on 0..MaxD: uniform on a non-empty subset of 0..MaxD
\* (pmf[v + 1] is the weight of v).
BasePmfs ==
    {[v \in 1..(MaxD + 1) |-> IF (v - 1) \in S THEN 1 ELSE 0] :
        S \in (SUBSET (0..MaxD)) \ {{}}}

Ok == [error |-> "none", message |-> ""]
Raise(e, m) == [error |-> e, message |-> m]
check_message == "dist batch shape must match cat batch shape"

NoCall ==
    [op |-> "none", obj |-> 0, cat_arg |-> NoArg, dist_arg |-> NoArg,
     validate_args |-> FALSE, x |-> NoVal, error |-> "none", message |-> "",
     value |-> NoVal, queried |-> FALSE, index |-> 0]

\* The shape of the state.
TypeOK ==
    /\ cat.logits \in LogitVectors
    /\ cat.batch_shape \in Shapes
    /\ cat.static_event_size_known \in BOOLEAN
    /\ dist.pmf \in BasePmfs
    /\ dist.batch_shape \in Shapes
    /\ dist.event_ndims_known \in BOOLEAN
    /\ DOMAIN heap = {CatGP, DistGP}
    /\ Len(objs) <= MaxObjs
    /\ last.op \in {"none", "init", "mean", "variance", "log_prob", "prob"}

\* Components as the caller built them: every logit vector and base with
\* matching batch shapes and statically known sizes.
InitNum ==
    /\ \E w \in LogitVectors :
          cat = [logits |-> w, batch_shape |-> <<3>>,
                 static_event_size_known |-> TRUE, graph_parents |-> CatGP]
    /\ \E p \in BasePmfs :
          dist = [pmf |-> p, batch_shape |-> <<3>>,
                  event_ndims_known |-> TRUE, graph_parents |-> DistGP]
    /\ heap = [a \in {CatGP, DistGP} |->
                  IF a = CatGP THEN <<"logits">> ELSE <<"rate">>]
    /\ objs = <<>>
    /\ last = NoCall

\* Components with uniform logits and a base point mass at 1, with every
\* runtime batch shape of the base and every static knowledge.
Init ==
    /\ \E n \in 1..MaxN, k \in BOOLEAN :
          cat = [logits |-> [i \in 1..n |-> 1], batch_shape |-> <<3>>,
                 static_event_size_known |-> k, graph_parents |-> CatGP]
    /\ \E s \in Shapes, k \in BOOLEAN :
          dist = [pmf |-> [v \in 1..(MaxD + 1) |-> IF v = 2 THEN 1 ELSE 0],
                  batch_shape |-> s,
                  event_ndims_known |-> k, graph_parents |-> DistGP]
    /\ heap = [a \in {CatGP, DistGP} |->
                  IF a = CatGP THEN <<"logits">> ELSE <<"rate">>]
    /\ objs = <<>>
    /\ last = NoCall

\* ------------------------------------------------------------ collaborators
\* nn_ops.softmax over the class axis, then array_ops.unstack into one
\* probability per class: exp(logit k) / sum_j exp(logit j).
softmax(logits) ==
    [k \in 1..Len(logits) |-> Rat(logits[k], SumInts(logits))]

\* Categorical.log_prob(index): the log of the class probability; an index
\* outside 0..N-1 has no class and gives NaN.
CatLogProb(index) ==
    IF index >= 0 /\ index < Len(cat.logits)
    THEN Log(softmax(cat.logits)[index + 1])
    ELSE NaN

BaseTotal == SumInts(dist.pmf)
\* base.prob at a rational point: its mass at an integer of the support, 0
\* anywhere else.
BaseProb(y) ==
    IF y.d = 1 /\ y.n >= 0 /\ y.n < Len(dist.pmf)
    THEN Rat(dist.pmf[y.n + 1], BaseTotal)
    ELSE Int2Rat(0)
\* self._dist.log_prob(y)
DistLogProb(y) == Log(BaseProb(y))
\* self._dist.mean()
DistMean ==
    SumRats([v \in 1..Len(dist.pmf) |-> RMul(Int2Rat(v - 1), BaseProb(Int2Rat(v - 1)))])
\* self._dist.variance()
DistVariance ==
    RSub(SumRats([v \in 1..Len(dist.pmf) |->
                    RMul(Int2Rat((v - 1) * (v - 1)), BaseProb(Int2Rat(v - 1)))]),
         RSquare(DistMean))

\* math_ops.add_n: the sum of a list of tensors (an empty list is refused,
\* see BuildError).
add_n(inputs) == SumRats(inputs)

\* clip_by_value that clamps from above only.
clip_by_value_upper(t, lo, hi) == IF RLt(hi, t) THEN hi ELSE t

\* clip_ops.clip_by_value(t, lo, hi) = maximum(minimum(t, hi), lo)
clip_by_value(t, lo, hi) ==
    LET tmin == IF RLt(hi, t) THEN hi ELSE t
    IN  IF RLt(tmin, lo) THEN lo ELSE tmin

\* math_ops.cast(t, int32): truncation towards zero.
cast_int32(t) ==
    IF t.n >= 0 THEN t.n \div t.d ELSE -((-t.n) \div t.d)

\* tensorflow.where(condition, a, b), element-wise selection.
where(condition, a, b) == IF condition THEN a ELSE b

\* The runtime value of the shape tensors the assertions compare.
TensorValue(t) ==
    CASE t = "cat_batch_shape" -> cat.batch_shape
      [] t = "dist_batch_shape" -> dist.batch_shape
      [] t = "cat_batch_rank" -> <<Len(cat.batch_shape)>>
      [] t = "dist_batch_rank" -> <<Len(dist.batch_shape)>>

\* check_ops.assert_equal(x, y): an op that fails when evaluated unless x
\* and y are equal element-wise (a one-element tensor broadcasts).
assert_equal(x, y) ==
    [x |-> x, y |-> y, message |-> check_message]
AssertionHolds(a) ==
    LET u == TensorValue(a.x)
        v == TensorValue(a.y)
    IN  IF Len(u) = Len(v) THEN u = v
        ELSE IF Len(u) = 1 THEN \A i \in 1..Len(v) : v[i] = u[1]
        ELSE IF Len(v) = 1 THEN \A i \in 1..Len(u) : u[i] = v[1]
        ELSE FALSE

\* Whether two runtime batch shapes broadcast in element-wise arithmetic.
Broadcastable(u, v) ==
    \A i \in 1..(IF Len(u) < Len(v) THEN Len(u) ELSE Len(v)) :
        LET a == u[Len(u) - i + 1]
            b == v[Len(v) - i + 1]
        IN  a = b \/ a = 1 \/ b = 1

\* ------------------------------------------------------------ Categorised
\* init_error with the isinstance check on dist made before the emptiness
\* check.
init_error_typefirst(c, d) ==
    IF ~IsInstance(c, "Categorical")
    THEN Raise("TypeError", "cat must be a Categorical distribution")
    ELSE IF ~IsInstance(d, "Distribution")
    THEN Raise("TypeError", "dist must be a Distribution instance")
    ELSE IF ~Truthy(d)
    THEN Raise("ValueError", "dist must be non-empty")
    ELSE IF ~dist.event_ndims_known
    THEN Raise("ValueError", "Expected to know rank(event_shape) from dist")
    ELSE IF ~cat.static_event_size_known
    THEN Raise("ValueError", "Could not infer number of classes from cat")
    ELSE Ok

\* __init__, lines 112-143: the checks in the order the constructor makes
\* them; the first that fails raises.
init_error(c, d) ==
    IF ~IsInstance(c, "Categorical")
    THEN Raise("TypeError", "cat must be a Categorical distribution")
    ELSE IF ~Truthy(d)
    THEN Raise("ValueError", "dist must be non-empty")
    ELSE IF ~IsInstance(d, "Distribution")
    THEN Raise("TypeError", "dist must be a Distribution instance")
    ELSE IF ~dist.event_ndims_known
    THEN Raise("ValueError", "Expected to know rank(event_shape) from dist")
    ELSE IF ~cat.static_event_size_known
    THEN Raise("ValueError", "Could not infer number of classes from cat")
    ELSE Ok

\* __init__, lines 149-161: the deferred assertions, built only on request.
init_assertions(validate_args) ==
    IF validate_args
    THEN <<assert_equal("cat_batch_rank", "dist_batch_rank")>>
         \o <<assert_equal("cat_batch_shape", "dist_batch_shape")>>
    ELSE <<>>

\* __init__, lines 171-172: graph_parents names the categorical's own list
\* and += extends that list in place; the result is the list at the
\* categorical's address.
init_graph_parents(h) ==
    [h EXCEPT ![cat.graph_parents] = @ \o h[dist.graph_parents]]

\* The object __init__ leaves behind when no check fails.
init_object(validate_args) ==
    [validate_args |-> validate_args,
     static_cat_event_size |-> Len(cat.logits),
     event_size |-> Len(cat.logits) - 1,
     assertions |-> init_assertions(validate_args),
     graph_parents |-> cat.graph_parents]

\* _cat_probs(log_probs=False): the class probabilities, one per class.
cat_probs(o) == softmax(cat.logits)

\* An error raised while the ops of a method are built: add_n refuses an
\* empty list, which range(event_size) gives when event_size = 0.
BuildError(o, op) ==
    IF op \in {"mean", "variance"} /\ o.event_size = 0
    THEN Raise("ValueError", "inputs must be a list of at least one Tensor")
    ELSE Ok

\* An error raised when the ops are evaluated: the control dependencies
\* (the assertions) first, then the element-wise arithmetic on the two
\* batch shapes.
RunError(o) ==
    IF \E i \in 1..Len(o.assertions) : ~AssertionHolds(o.assertions[i])
    THEN Raise("InvalidArgumentError", check_message)
    ELSE IF ~Broadcastable(cat.batch_shape, dist.batch_shape)
    THEN Raise("InvalidArgumentError", "Incompatible shapes")
    ELSE Ok

CallError(o, op) ==
    IF BuildError(o, op).error # "none" THEN BuildError(o, op) ELSE RunError(o)

\* _mean with the overflow component not shifted by event_size.
mean_value_noshift(o) ==
    LET cp == cat_probs(o)
        cat_means == [k \in 1..o.event_size |-> RMul(Int2Rat(k - 1), cp[k])]
    IN  RAdd(add_n(cat_means), RMul(cp[Len(cp)], DistMean))

\* _mean, lines 213-223
mean_value(o) ==
    LET cp == cat_probs(o)
        cat_means == [k \in 1..o.event_size |-> RMul(Int2Rat(k - 1), cp[k])]
        cat_mean == add_n(cat_means)
        dist_mean == RMul(cp[Len(cp)], RAdd(DistMean, Int2Rat(o.event_size)))
    IN  RAdd(cat_mean, dist_mean)

\* _variance with the cross term 2*K*E_dist[x] left out.
variance_value_nocross(o) ==
    LET cp == cat_probs(o)
        cat_2nd_moments ==
            [k \in 1..o.event_size |-> RMul(Int2Rat((k - 1) * (k - 1)), cp[k])]
        dist_2nd_moment ==
            RMul(cp[Len(cp)],
                 RAdd(DistVariance,
                      RAdd(RSquare(DistMean), Int2Rat(o.event_size * o.event_size))))
    IN  RSub(RAdd(add_n(cat_2nd_moments), dist_2nd_moment), RSquare(mean_value(o)))

\* _variance, lines 228-249
variance_value(o) ==
    LET cp == cat_probs(o)
        cat_2nd_moments ==
            [k \in 1..o.event_size |-> RMul(Int2Rat((k - 1) * (k - 1)), cp[k])]
        cat_2nd_moment == add_n(cat_2nd_moments)
        dist_2nd_moment ==
            RMul(cp[Len(cp)],
                 RAdd(RAdd(RMul(Int2Rat(2 * o.event_size), DistMean), DistVariance),
                      RAdd(RSquare(DistMean), Int2Rat(o.event_size * o.event_size))))
    IN  RSub(RAdd(cat_2nd_moment, dist_2nd_moment), RSquare(mean_value(o)))

\* The index taken from x by the cast alone, without the clip.
cat_index_noclip(o, x) == cast_int32(x)

\* _log_prob, lines 254-255: the index the categorical is queried with.
cat_index(o, x) ==
    cast_int32(clip_by_value(x, Int2Rat(0), Int2Rat(o.event_size)))

\* _log_prob with the branch taken on x <= event_size.
log_prob_value_le(o, x) ==
    LET cat_log_prob == CatLogProb(cat_index(o, x))
    IN  where(~RLt(Int2Rat(o.event_size), x),
              cat_log_prob,
              LogAdd(cat_log_prob, DistLogProb(RSub(x, Int2Rat(o.event_size)))))

\* _log_prob with the base evaluated at x itself, not at x - event_size.
log_prob_value_unshifted(o, x) ==
    LET cat_log_prob == CatLogProb(cat_index(o, x))
    IN  where(RLt(x, Int2Rat(o.event_size)),
              cat_log_prob,
              LogAdd(cat_log_prob, DistLogProb(x)))

\* _log_prob, lines 253-260
log_prob_value(o, x) ==
    LET cat_log_prob == CatLogProb(cat_index(o, x))
    IN  where(RLt(x, Int2Rat(o.event_size)),
              cat_log_prob,
              LogAdd(cat_log_prob, DistLogProb(RSub(x, Int2Rat(o.event_size)))))

\* _prob, line 263
prob_value(o, x) == Exp(log_prob_value(o, x))

\* The outcome of a public method: the error it raises, or its value, and
\* the index self._cat.log_prob was called with (when it was called).
Outcome(o, op, x) ==
    LET e == CallError(o, op)
        q == e.error = "none" /\ op \in {"log_prob", "prob"}
    IN  [error |-> e.error, message |-> e.message,
         queried |-> q, index |-> IF q THEN cat_index(o, x) ELSE 0,
         value |-> IF e.error # "none" THEN NoVal
                   ELSE CASE op = "mean" -> mean_value(o)
                          [] op = "variance" -> variance_value(o)
                          [] op = "log_prob" -> log_prob_value(o, x)
                          [] op = "prob" -> prob_value(o, x)]

\* ------------------------------------------------------------ actions
\* The caller is single-threaded and every method is synchronous: it makes a
\* call only after it has taken the outcome of the one before.
Idle == last.op = "none"

\* Categorised(cat, dist, validate_args)
Construct(c, d, v) ==
    LET e == init_error(c, d)
    IN  /\ Idle
        /\ e.error # "none" \/ Len(objs) < MaxObjs
        /\ last' = [NoCall EXCEPT !.op = "init", !.cat_arg = c, !.dist_arg = d,
                                  !.validate_args = v, !.error = e.error,
                                  !.message = e.message,
                                  !.obj = IF e.error = "none" THEN Len(objs) + 1 ELSE 0]
        /\ IF e.error = "none"
           THEN /\ heap' = init_graph_parents(heap)
                /\ objs' = Append(objs, init_object(v))
           ELSE UNCHANGED <<heap, objs>>
        /\ UNCHANGED <<cat, dist>>

Call(i, op, x) ==
    LET r == Outcome(objs[i], op, x)
    IN  /\ Idle
        /\ last' = [NoCall EXCEPT !.op = op, !.obj = i, !.x = x,
                                  !.validate_args = objs[i].validate_args,
                                  !.error = r.error, !.message = r.message,
                                  !.value = r.value, !.queried = r.queried,
                                  !.index = r.index]
        /\ UNCHANGED <<cat, dist, heap, objs>>

Mean(i) == Call(i, "mean", NoVal)
Variance(i) == Call(i, "variance", NoVal)
LogProb(i, x) == Call(i, "log_prob", x)
Prob(i, x) == Call(i, "prob", x)

\* The caller takes the outcome (the value or the exception) of its call.
Return ==
    /\ ~Idle
    /\ last' = NoCall
    /\ UNCHANGED <<cat, dist, heap, objs>>

Next ==
    \/ \E c \in CatArgs, d \in DistArgs, v \in BOOLEAN : Construct(c, d, v)
    \/ \E i \in 1..Len(objs) : Mean(i)
    \/ \E i \in 1..Len(objs) : Variance(i)
    \/ \E i \in 1..Len(objs), x \in XArgs : LogProb(i, x)
    \/ \E i \in 1..Len(objs), x \in XArgs : Prob(i, x)
    \/ Return

Spec == Init /\ [][Next]_vars

\* The numeric study: one composite built from the two components.
NextNum ==
    \/ \E v \in BOOLEAN : objs = <<>> /\ Construct(PyCat, PyDist, v)
    \/ \E i \in 1..Len(objs) : Mean(i)
    \/ \E i \in 1..Len(objs) : Variance(i)
    \/ \E i \in 1..Len(objs), x \in XArgs : LogProb(i, x)
    \/ \E i \in 1..Len(objs), x \in XArgs : Prob(i, x)
    \/ Return

SpecNum == InitNum /\ [][NextNum]_vars

\* ------------------------------------------------------------ properties
\* The composite the last call was made on.
LastObj == objs[last.obj]
IsCall == last.op \in {"mean", "variance", "log_prob", "prob"}
\* x is a non-negative integer.
IsCount(x) == x.d = 1 /\ x.n >= 0
\* The integers that can carry mass under composite o, and one beyond.
Points(o) == [j \in 1..(o.event_size + Len(dist.pmf) + 1) |-> Int2Rat(j - 1)]
\* P(class = k), k counted from 0.
ClassProb(k) == Rat(cat.logits[k + 1], SumInts(cat.logits))
PointMassAtOne == [v \in 1..(MaxD + 1) |-> IF v = 2 THEN 1 ELSE 0]

\* C1: for N >= 2 and every integer x >= 0, log_prob(x) is the categorical
\* log-probability of class x alone when x < event_size, and the
\* log-probability of the overflow class event_size plus
\* base.log_prob(x - event_size) when x >= event_size (base.log_prob(0) at
\* the boundary x = event_size).
C1_LogProbPiecewise ==
    (last.op = "log_prob" /\ last.error = "none" /\ IsCount(last.x)
        /\ LastObj.event_size >= 1)
    => LET es == LastObj.event_size
           x == last.x.n
       IN  IF x < es
           THEN last.value = Log(ClassProb(x))
           ELSE last.value =
                    LogAdd(Log(ClassProb(es)), DistLogProb(Int2Rat(x - es)))

\* log_prob was called at the boundary x = event_size on a composite of at
\* least two classes whose base has mass at 0.
C1_Witness ==
    /\ last.op = "log_prob" /\ last.error = "none"
    /\ LastObj.event_size >= 1
    /\ last.x = Int2Rat(LastObj.event_size)
    /\ last.value = LogAdd(Log(ClassProb(LastObj.event_size)), DistLogProb(Int2Rat(0)))
    /\ last.value.n > 0

\* sum over x >= 0 of x * prob(x)
Expectation(o) ==
    SumRats([j \in 1..Len(Points(o)) |->
                RMul(Points(o)[j], prob_value(o, Points(o)[j]))])
\* sum_{k < event_size} k * P(k) + P(event_size) * (mean(base) + event_size)
MeanFormula(o) ==
    RAdd(SumRats([k \in 1..o.event_size |-> RMul(Int2Rat(k - 1), ClassProb(k - 1))]),
         RMul(ClassProb(o.event_size), RAdd(DistMean, Int2Rat(o.event_size))))

\* C2: for N >= 2, mean() is sum_{k < event_size} k*P(k) +
\* P(event_size)*(mean(base) + event_size), which is the sum over all x >= 0
\* of x*prob(x); for logits [0, 0, ln 2] and a base point mass at 1 it is 7/4.
C2_MeanIsExpectation ==
    (last.op = "mean" /\ last.error = "none" /\ LastObj.event_size >= 1)
    => /\ last.value = MeanFormula(LastObj)
       /\ last.value = Expectation(LastObj)
       /\ (cat.logits = <<1, 1, 2>> /\ dist.pmf = PointMassAtOne)
            => last.value = Rat(7, 4)

\* mean() was called on the composite of logits [0, 0, ln 2] and a base
\* point mass at 1.
C2_Witness ==
    /\ last.op = "mean" /\ last.error = "none"
    /\ cat.logits = <<1, 1, 2>> /\ dist.pmf = PointMassAtOne
    /\ last.value = Rat(7, 4)

\* sum over x >= 0 of (x - mean())^2 * prob(x)
CentralMoment(o) ==
    SumRats([j \in 1..Len(Points(o)) |->
                RMul(RSquare(RSub(Points(o)[j], mean_value(o))),
                     prob_value(o, Points(o)[j]))])
\* [sum_{k<event_size} k^2*P(k) + P(event_size)*(2*event_size*mean(base)
\*   + variance(base) + mean(base)^2 + event_size^2)] - mean()^2
VarianceFormula(o) ==
    LET es == o.event_size
    IN  RSub(RAdd(SumRats([k \in 1..es |->
                              RMul(Int2Rat((k - 1) * (k - 1)), ClassProb(k - 1))]),
                  RMul(ClassProb(es),
                       RAdd(RAdd(RMul(Int2Rat(2 * es), DistMean), DistVariance),
                            RAdd(RSquare(DistMean), Int2Rat(es * es))))),
             RSquare(mean_value(o)))

\* C3: for N >= 2, variance() is the second-moment formula minus mean()^2,
\* which is the sum over all x >= 0 of (x - mean())^2 * prob(x), and it is
\* never negative.
C3_VarianceIsCentralMoment ==
    (last.op = "variance" /\ last.error = "none" /\ LastObj.event_size >= 1)
    => /\ last.value = VarianceFormula(LastObj)
       /\ last.value = CentralMoment(LastObj)
       /\ last.value.n >= 0

\* variance() was called on a composite of at least two classes whose base
\* has a variance of its own, and returned a positive value.
C3_Witness ==
    /\ last.op = "variance" /\ last.error = "none"
    /\ LastObj.event_size >= 1
    /\ DistVariance.n > 0
    /\ last.value.n > 0

\* A call made on a composite built with validate_args while the runtime
\* batch shapes of the two components differ.
MismatchedValidatedCall ==
    IsCall /\ last.validate_args /\ cat.batch_shape # dist.batch_shape

\* C4: with validate_args and batch shapes that differ, construction
\* succeeds and every call of mean(), variance(), log_prob() or prob() fails
\* with the batch-shape assertion's error; without validate_args no call
\* raises that error.
C4_DeferredShapeValidation ==
    /\ (last.op = "init" /\ last.cat_arg = PyCat /\ last.dist_arg = PyDist
          /\ cat.static_event_size_known /\ dist.event_ndims_known)
         => (last.error = "none" /\ last.obj = Len(objs))
    /\ MismatchedValidatedCall
         => (last.error = "InvalidArgumentError" /\ last.message = check_message)
    /\ (IsCall /\ ~last.validate_args) => last.message # check_message

\* The same for composites with at least one directly categorised value
\* (event_size >= 1).
C4_DeferredShapeValidationFromTwoClasses ==
    /\ (MismatchedValidatedCall /\ LastObj.event_size >= 1)
         => (last.error = "InvalidArgumentError" /\ last.message = check_message)
    /\ (IsCall /\ ~last.validate_args) => last.message # check_message

\* C5: construction fails with TypeError whenever cat is not a Categorical
\* and whenever dist is not a Distribution (falsy values included), and no
\* object comes into existence.
C5_TypeErrorForEveryNonDistribution ==
    (last.op = "init"
        /\ (~IsInstance(last.cat_arg, "Categorical")
              \/ ~IsInstance(last.dist_arg, "Distribution")))
    => (last.error = "TypeError" /\ last.obj = 0)

\* C5 as amended: construction fails with TypeError whenever cat is not a
\* Categorical, and whenever cat is one and dist is a truthy value that is
\* not a Distribution; a falsy dist (None, 0, an empty list) next to a
\* Categorical fails with ValueError; no object comes into existence in any
\* of these cases.
C5_TypeErrorUnlessFalsy ==
    [][(last'.op = "init"
          /\ (~IsInstance(last'.cat_arg, "Categorical")
                \/ ~IsInstance(last'.dist_arg, "Distribution")))
       => /\ last'.error =
                (IF IsInstance(last'.cat_arg, "Categorical") /\ ~Truthy(last'.dist_arg)
                 THEN "ValueError" ELSE "TypeError")
          /\ last'.obj = 0
          /\ objs' = objs
          /\ heap' = heap]_vars

\* The constructor was given a Categorical and None, and raised ValueError.
C5_Witness ==
    /\ last.op = "init"
    /\ last.cat_arg = PyCat /\ last.dist_arg = PyNone
    /\ last.error = "ValueError" /\ last.obj = 0

\* The value is the finite log-probability of one of the classes.
IsClassLogProb(v) ==
    \E k \in 0..(Len(cat.logits) - 1) : v = Log(ClassProb(k)) /\ v.n > 0

\* C6: for every x < 0, log_prob(x) raises no error and returns NaN or an
\* otherwise invalid result, not the finite log-probability of a class.
C6_NegativeIsInvalid ==
    (last.op = "log_prob" /\ RLt(last.x, Int2Rat(0)))
    => (last.error = "none" /\ ~IsClassLogProb(last.value))

\* C6 as amended: for every x < 0, log_prob(x) raises no error and returns
\* the categorical log-probability of class 0 (x is clamped to index 0 and
\* the categorical branch is taken), a finite value and not NaN.
C6_NegativeIsClassZero ==
    (last.op = "log_prob" /\ RLt(last.x, Int2Rat(0)))
    => /\ last.error = "none"
       /\ last.value = Log(ClassProb(0))
       /\ last.value.kind = "log" /\ last.value.n > 0

\* log_prob was called with x = -1 and returned log P(class = 0).
C6_Witness ==
    /\ last.op = "log_prob" /\ last.x = Int2Rat(-1)
    /\ last.error = "none"
    /\ last.value = Log(ClassProb(0))

\* C7: every class count N >= 1 is usable: event_size = N - 1, and for
\* N = 1 mean() returns mean(base) and variance() returns variance(base).
C7_SingleClassUsable ==
    /\ \A i \in 1..Len(objs) :
          objs[i].event_size = objs[i].static_cat_event_size - 1
    /\ (last.op \in {"mean", "variance"} /\ LastObj.static_cat_event_size = 1
          /\ RunError(LastObj).error = "none")
       => /\ last.error = "none"
          /\ last.value = (IF last.op = "mean" THEN DistMean ELSE DistVariance)

\* C8: in log_prob, for every x the categorical is queried with an index in
\* 0..event_size; the index is x for an integer x in 0..event_size-1 and is
\* event_size for every x >= event_size.
C8_IndexInRange ==
    last.queried
    => LET es == LastObj.event_size
           x == last.x
       IN  /\ last.index \in 0..es
           /\ (IsCount(x) /\ x.n < es) => last.index = x.n
           /\ ~RLt(x, Int2Rat(es)) => last.index = es

\* log_prob was called with a fractional x beyond event_size and the
\* categorical was queried with event_size.
C8_Witness ==
    /\ last.queried
    /\ last.x.d # 1
    /\ RLt(Int2Rat(LastObj.event_size), last.x)
    /\ last.index = LastObj.event_size

\* C9: a construction leaves the graph-parent lists of the two components
\* and of every composite built before as they were.
C9_GraphParentsUntouched ==
    [][/\ heap'[cat.graph_parents] = heap[cat.graph_parents]
       /\ heap'[dist.graph_parents] = heap[dist.graph_parents]
       /\ \A i \in 1..Len(objs) :
             heap'[objs[i].graph_parents] = heap[objs[i].graph_parents]]_vars

\* The graph-parent list of a composite already built is left as it was by
\* every later step.
C9_BuiltCompositeUntouched ==
    [][\A i \in 1..Len(objs) :
          heap'[objs[i].graph_parents] = heap[objs[i].graph_parents]]_vars

\* sum over x >= 0 of prob(x)
TotalMass(o) ==
    SumRats([j \in 1..Len(Points(o)) |-> prob_value(o, Points(o)[j])])
\* sum over x >= event_size of prob(x)
OverflowMass(o) ==
    SumRats([j \in 1..(Len(Points(o)) - o.event_size) |->
                prob_value(o, Points(o)[j + o.event_size])])

\* C10: for N >= 2 the sum over all integers x >= 0 of prob(x) is 1, and the
\* values x >= event_size carry exactly the overflow mass P(event_size).
C10_Normalised ==
    (last.op = "prob" /\ last.error = "none" /\ LastObj.event_size >= 1)
    => /\ TotalMass(LastObj) = Int2Rat(1)
       /\ OverflowMass(LastObj) = ClassProb(LastObj.event_size)

\* prob was called beyond event_size on a composite of at least two classes
\* and returned a part of the overflow mass.
C10_Witness ==
    /\ last.op = "prob" /\ last.error = "none"
    /\ LastObj.event_size >= 1
    /\ IsCount(last.x) /\ last.x.n > LastObj.event_size
    /\ last.value.n > 0
    /\ RLt(last.value, ClassProb(LastObj.event_size))

=============================================================================
